---- MODULE Spec2Model ----
(***************************************************************************)
(* The leaderboard backend: the in-memory store (package store), the       *)
(* leaderboard service built on it (package services), the HTTP handler    *)
(* that normalises the paging parameters, and the client that loads the    *)
(* leaderboard page by page.                                               *)
(*                                                                         *)
(* A Go string is a sequence of bytes, so a username is a sequence of      *)
(* byte values: <<65>> is "A", <<97, 98>> is "ab".  The store's map is a   *)
(* function from the stored usernames to their ratings (a *User holds      *)
(* nothing but the key and the rating).  Go iterates over a map in an      *)
(* unspecified order: every operation that ranges over the map takes the   *)
(* order of that iteration as the parameter "order", and the action that   *)
(* calls it chooses the order freely.                                      *)
(***************************************************************************)
EXTENDS Integers, Sequences, FiniteSets, TLC

VARIABLES
    users,      \* MemoryStore.users: username -> rating
    resp,       \* the call that returned last: its name, arguments and results
    main,       \* where the goroutine of main stands
    mu,         \* MemoryStore.mu: who holds the RWMutex
    procs,      \* the goroutines calling the store at once: where each stands
    lastWrite,  \* history: the writes in the order the write lock was taken
    ctx         \* the context StartRandomUpdates was started with

vars == <<users, resp, main, mu, procs, lastWrite, ctx>>

\* what the calls made one at a time leave alone
rest == <<main, mu, procs, lastWrite, ctx>>

----------------------------------------------------------------------------
(* Inputs *)

\* "A", "B", "ab": in byte order "A" < "B" < "ab"
Usernames == { <<65>>, <<66>>, <<97, 98>> }

\* "a", "B", "AB", "": "a" is in "A" and "ab", "B" in "B" and "ab"
Queries == { <<97>>, <<66>>, <<65, 66>>, <<>> }

\* both ends of the valid range and the first value outside it on each side
Ratings == { 99, 100, 5000, 5001 }

MaxPage == 3
MaxLimit == 2
MaxSeed == 2
MaxWrites == 2

\* binding:"required,min=100,max=5000"
MinRating == 100
MaxRating == 5000

\* the handler's limit range and default
LimitCap == 100
DefaultLimit == 50

\* the limit the service passes to SearchUsers
SearchLimit == 50

\* Go's int is 32 or 64 bits wide, by target; this is the 32-bit build.  The
\* 64-bit build wraps the same way with 2^64 in place of 2^32.
IntBits == 32

MaxInt == (2 ^ (IntBits - 2) - 1) + 2 ^ (IntBits - 2)
MinInt == (-MaxInt) - 1

\* a page whose (page-1)*limit does not fit an int for a limit > 1
BigPage == 2 ^ (IntBits - 2) + 1

Limits == (1 .. MaxLimit) \cup { LimitCap }
Pages == (1 .. MaxPage) \cup { BigPage }

----------------------------------------------------------------------------
(* Go's int arithmetic, wrapping at IntBits *)

\* a + b for a in MinInt..MaxInt and 0 <= b <= MaxInt
AddInt(a, b) ==
    IF a > MaxInt - b THEN MinInt + ((a - MaxInt - 1) + b) ELSE a + b

\* a * b for 0 <= a <= MaxInt and 0 <= b < 2^15, computed on the two halves
\* of a so that no intermediate value leaves the range of the checker
MulInt(a, b) ==
    LET half == 2 ^ (IntBits \div 2)
        lo   == (a % half) * b
        hi   == (((a \div half) * b) + (lo \div half)) % half
    IN  IF hi >= half \div 2
        THEN ((hi - half) * half) + (lo % half)
        ELSE (hi * half) + (lo % half)

----------------------------------------------------------------------------
(* Go strings *)

\* a < b on strings: byte-wise lexicographic
StrLess(a, b) ==
    \E i \in 1 .. Len(b) :
        /\ \A j \in 1 .. (i - 1) : j <= Len(a) /\ a[j] = b[j]
        /\ (i > Len(a) \/ (i <= Len(a) /\ a[i] < b[i]))

\* strings.ToLower on ASCII
ToLower(s) ==
    [i \in 1 .. Len(s) |-> IF s[i] \in 65 .. 90 THEN s[i] + 32 ELSE s[i]]

\* strings.Contains
Contains(s, substr) ==
    \E i \in 0 .. (Len(s) - Len(substr)) :
        SubSeq(s, i + 1, i + Len(substr)) = substr

\* sort.Slice: for the short slices of this model Go sorts by insertion.
\* less[<<x, y>>] is what the less function answers for the elements x and y.
SortSlice(s, less) ==
    LET Insert(acc, x) ==
            LET keep == { j \in 1 .. Len(acc) : ~less[<<x, acc[j]>>] }
                k    == IF keep = {} THEN 0
                        ELSE CHOOSE j \in keep : \A j2 \in keep : j2 <= j
            IN  SubSeq(acc, 1, k) \o <<x>> \o SubSeq(acc, k + 1, Len(acc))
        sorted[i \in 0 .. Len(s)] ==
            IF i = 0 THEN <<>> ELSE Insert(sorted[i - 1], s[i])
    IN  sorted[Len(s)]

----------------------------------------------------------------------------
(* package store *)

User(username, rating) == [Username |-> username, Rating |-> rating]

\* NewMemoryStore: the empty map
NewMemoryStore == [u \in {} |-> 0]

\* the orders in which a range over the map m can visit its keys
IterOrders(m) ==
    LET n == Cardinality(DOMAIN m)
    IN  { o \in [1 .. n -> DOMAIN m] :
            \A i, j \in 1 .. n : i # j => o[i] # o[j] }

\* AddUser that leaves a stored user's rating as it was
AddUser_InsertOnly(m, username, rating) ==
    [users |-> [u \in DOMAIN m \cup {username} |->
                    IF u \in DOMAIN m THEN m[u] ELSE rating],
     err   |-> "nil"]

Store_AddUser(m, username, rating) ==
    [users |-> [u \in DOMAIN m \cup {username} |->
                    IF u = username THEN rating ELSE m[u]],
     err   |-> "nil"]

Store_GetUser(m, username) ==
    IF username \notin DOMAIN m
    THEN [user |-> User(<<>>, 0), err |-> "user not found"]
    ELSE [user |-> User(username, m[username]), err |-> "nil"]

\* the comparison without the username to break a tie
UserLess_RatingOnly(a, b) == a.Rating > b.Rating

\* the comparison with the lowest rating first
UserLess_Ascending(a, b) ==
    IF a.Rating # b.Rating
    THEN a.Rating < b.Rating
    ELSE StrLess(a.Username, b.Username)

\* the comparison GetAllUsers sorts by
UserLess(a, b) ==
    IF a.Rating # b.Rating
    THEN a.Rating > b.Rating
    ELSE StrLess(a.Username, b.Username)

Store_GetAllUsers(m, order) ==
    LET appended == [i \in 1 .. Len(order) |-> User(order[i], m[order[i]])]
        elems    == { appended[i] : i \in 1 .. Len(appended) }
    IN  SortSlice(appended, [p \in elems \X elems |-> UserLess(p[1], p[2])])

Store_GetUserCount(m) == Cardinality(DOMAIN m)

\* GetUserRank counting the users rated at least as high
GetUserRank_CountsEqual(m, order, username) ==
    IF username \notin DOMAIN m
    THEN [rank |-> 0, err |-> "user not found"]
    ELSE LET rank[i \in 0 .. Len(order)] ==
                 IF i = 0 THEN 1
                 ELSE IF m[order[i]] >= m[username]
                      THEN rank[i - 1] + 1
                      ELSE rank[i - 1]
         IN  [rank |-> rank[Len(order)], err |-> "nil"]

\* GetUserRank counting the users rated lower
GetUserRank_CountsLower(m, order, username) ==
    IF username \notin DOMAIN m
    THEN [rank |-> 0, err |-> "user not found"]
    ELSE LET rank[i \in 0 .. Len(order)] ==
                 IF i = 0 THEN 1
                 ELSE IF m[order[i]] < m[username]
                      THEN rank[i - 1] + 1
                      ELSE rank[i - 1]
         IN  [rank |-> rank[Len(order)], err |-> "nil"]

\* rank starts at 1 and grows by one at every visited user rated higher
Store_GetUserRank(m, order, username) ==
    IF username \notin DOMAIN m
    THEN [rank |-> 0, err |-> "user not found"]
    ELSE LET rank[i \in 0 .. Len(order)] ==
                 IF i = 0 THEN 1
                 ELSE IF m[order[i]] > m[username]
                      THEN rank[i - 1] + 1
                      ELSE rank[i - 1]
         IN  [rank |-> rank[Len(order)], err |-> "nil"]

\* the comparison SearchUsers sorts by
ResultLess(a, b) ==
    IF a.Rating # b.Rating
    THEN a.Rating > b.Rating
    ELSE StrLess(a.Username, b.Username)

\* the range over the map appends the matches in the order it visits them and
\* breaks once it holds limit of them; the sort comes after the break
Store_SearchUsers(m, order, query, limit) ==
    LET q == ToLower(query)
        loop[i \in 0 .. Len(order)] ==
            IF i = 0 THEN [results |-> <<>>, broke |-> FALSE]
            ELSE LET before == loop[i - 1]
                     name   == order[i]
                 IN  IF before.broke THEN before
                     ELSE IF Contains(ToLower(name), q)
                          THEN LET results ==
                                       Append(before.results, User(name, m[name]))
                               IN  [results |-> results,
                                    broke   |-> Len(results) >= limit]
                          ELSE before
        results == loop[Len(order)].results
        elems   == { results[i] : i \in 1 .. Len(results) }
    IN  SortSlice(results, [p \in elems \X elems |-> ResultLess(p[1], p[2])])

\* the values minRating and maxRating start from
StatsMinStart == 5000
StatsMaxStart == 100

\* float64(sum) / float64(total), kept as the fraction it stands for
Quotient(sum, total) == [num |-> sum, den |-> total]

\* the empty map gives four zeros; otherwise one range over the map lowers
\* minRating, raises maxRating and adds up sum
Store_GetStats(m, order) ==
    IF Cardinality(DOMAIN m) = 0
    THEN [total |-> 0, minRating |-> 0, maxRating |-> 0,
          avgRating |-> Quotient(0, 1)]
    ELSE LET loop[i \in 0 .. Len(order)] ==
                 IF i = 0
                 THEN [minRating |-> StatsMinStart, maxRating |-> StatsMaxStart,
                       sum |-> 0]
                 ELSE LET before == loop[i - 1]
                          rating == m[order[i]]
                      IN  [minRating |-> IF rating < before.minRating
                                         THEN rating ELSE before.minRating,
                           maxRating |-> IF rating > before.maxRating
                                         THEN rating ELSE before.maxRating,
                           sum       |-> before.sum + rating]
             end == loop[Len(order)]
         IN  [total |-> Cardinality(DOMAIN m), minRating |-> end.minRating,
              maxRating |-> end.maxRating,
              avgRating |-> Quotient(end.sum, Cardinality(DOMAIN m))]

Store_Clear(m) == NewMemoryStore

\* a *User read as if AddUser wrote the new rating into the User it had stored
Deref_WrittenInPlace(user, m) ==
    IF user.Username \in DOMAIN m
    THEN User(user.Username, m[user.Username])
    ELSE user

\* a *User read after the method that returned it has released the lock:
\* AddUser stores a new User and writes to none it has stored, so the values
\* are those of the time the pointer was copied, whatever the map m holds now
Deref(user, m) == user

\* sync.RWMutex as it starts: no writer and no reader holds it, and no writer
\* has announced itself.  writer: a writer holds the lock; readers: how many
\* readers hold it; pending: a writer inside Lock() has announced itself and
\* waits for the readers to leave.
NewRWMutex == [writer |-> FALSE, readers |-> 0, pending |-> FALSE]

\* the goroutines that call the store at the same time
NumProcs == 2
Procs == 1 .. NumProcs

\* a goroutine that is in no call of the store
Idle == [pc |-> "idle"]

\* Lock() that does not wait for a writer to leave
CanLock_IgnoresWriter(m) == ~m.pending

\* Lock() goes on to announce its writer once no other writer is between its
\* own announcement and its Unlock() (the writers' inner mutex)
CanLock(m) == ~m.writer /\ ~m.pending

\* RLock() that waits for nobody
CanRLock_Always(m) == TRUE

\* RLock() returns once no writer holds the mutex or has announced itself
CanRLock(m) == ~m.writer /\ ~m.pending

\* the methods that take the write lock; every other one takes the read lock
IsWrite(call) == call.op \in { "AddUser", "Clear" }

\* what a method does between taking the lock and releasing it: the map
\* afterwards and what the method returns
Run(m, order, call) ==
    CASE call.op = "AddUser" ->
             LET r == Store_AddUser(m, call.username, call.rating)
             IN  [users |-> r.users, result |-> [err |-> r.err]]
      [] call.op = "Clear" ->
             [users |-> Store_Clear(m), result |-> [err |-> "nil"]]
      [] call.op = "GetUser" ->
             [users |-> m, result |-> Store_GetUser(m, call.username)]
      [] call.op = "GetAllUsers" ->
             [users |-> m, result |-> Store_GetAllUsers(m, order)]
      [] call.op = "GetUserCount" ->
             [users |-> m, result |-> Store_GetUserCount(m)]
      [] call.op = "GetUserRank" ->
             [users |-> m, result |-> Store_GetUserRank(m, order, call.username)]
      [] call.op = "SearchUsers" ->
             [users |-> m,
              result |-> Store_SearchUsers(m, order, call.query, call.limit)]
      [] call.op = "GetStats" ->
             [users |-> m, result |-> Store_GetStats(m, order)]

----------------------------------------------------------------------------
(* package services *)

LeaderboardEntry(rank, user) ==
    [Rank |-> rank, Username |-> user.Username, Rating |-> user.Rating]

UserRankResponse(user, rank) ==
    [Username |-> user.Username, Rating |-> user.Rating, Rank |-> rank]

\* offset counted from page 0
Offset_FromPage0(page, limit) == MulInt(page, limit)

\* offset := (page - 1) * limit
Offset(page, limit) == MulInt(page - 1, limit)

\* the rank of every position is the position
NextRank_Position(allUsers, i, currentRank) == i + 1

\* the rank raised by one where the rating changes
NextRank_Dense(allUsers, i, currentRank) ==
    IF i > 0 /\ allUsers[i + 1].Rating # allUsers[i].Rating
    THEN currentRank + 1
    ELSE currentRank

\* currentRank after the test of pass i: i + 1 where the rating changes, the
\* rank before otherwise; allUsers[i] of the code is allUsers[i + 1]
NextRank(allUsers, i, currentRank) ==
    IF i > 0 /\ allUsers[i + 1].Rating # allUsers[i].Rating
    THEN i + 1
    ELSE currentRank

\* GetLeaderboard from the slice GetAllUsers has returned
Leaderboard(allUsers, page, limit) ==
    LET total    == Len(allUsers)
        offset   == Offset(page, limit)
    IN  IF offset >= total
        THEN [Entries |-> <<>>, Page |-> page, Limit |-> limit,
              TotalUsers |-> total, HasMore |-> FALSE, err |-> "nil"]
        ELSE LET sum == AddInt(offset, limit)
                 end == IF sum > total THEN total ELSE sum
                 \* loop[n]: the entries and currentRank after the passes
                 \* i = 0 .. n-1
                 loop[n \in 0 .. (IF end > 0 THEN end ELSE 0)] ==
                     IF n = 0 THEN [entries |-> <<>>, currentRank |-> 1]
                     ELSE LET i    == n - 1
                              prev == loop[n - 1]
                              currentRank ==
                                  NextRank(allUsers, i, prev.currentRank)
                          IN  [entries |->
                                   IF i >= offset
                                   THEN Append(prev.entries,
                                               LeaderboardEntry(currentRank,
                                                                allUsers[i + 1]))
                                   ELSE prev.entries,
                               currentRank |-> currentRank]
             IN  [Entries |-> loop[IF end > 0 THEN end ELSE 0].entries,
                  Page |-> page, Limit |-> limit, TotalUsers |-> total,
                  HasMore |-> end < total, err |-> "nil"]

Service_GetLeaderboard(m, order, page, limit) ==
    Leaderboard(Store_GetAllUsers(m, order), page, limit)

\* rand.Intn taken to return n as well
RandIntn_Inclusive(n) == { 0, n \div 2, n }

\* rand.Intn(n) returns some number of 0 .. n-1: the lowest, the middle one
\* and the highest stand for them
RandIntn(n) == { 0, n \div 2, n - 1 }

\* rand.Intn(4901) + 100
RatingSpan == 4901
RatingBase == 100

\* the ratings drawn from a span one too wide
RandomRatings_OneWider == { d + RatingBase : d \in RandIntn(RatingSpan + 1) }

RandomRatings == { d + RatingBase : d \in RandIntn(RatingSpan) }

\* strconv's decimal digits of a number that is not negative
Itoa(n) ==
    LET digits[k \in 0 .. n] ==
            IF k < 10 THEN << 48 + k >>
            ELSE digits[k \div 10] \o << 48 + (k % 10) >>
    IN  digits[n]

\* the name of the user before
SeedName_FromZero(i) == << 117, 115, 101, 114, 95 >> \o Itoa(i - 1)

\* fmt.Sprintf("user_%d", i)
SeedName(i) == << 117, 115, 101, 114, 95 >> \o Itoa(i)

\* SeedData(count): AddUser("user_1") .. AddUser("user_count"), the i-th with
\* the i-th rating drawn
Service_SeedData(m, count, ratings) ==
    LET loop[i \in 0 .. (IF count > 0 THEN count ELSE 0)] ==
            IF i = 0 THEN m
            ELSE Store_AddUser(loop[i - 1], SeedName(i), ratings[i]).users
    IN  [users |-> loop[IF count > 0 THEN count ELSE 0], err |-> "nil"]

\* GetUser, then the store's GetUserRank; with an error the response is nil,
\* here the zero UserRankResponse
Service_GetUserRank(m, order, username) ==
    LET got == Store_GetUser(m, username)
    IN  IF got.err # "nil"
        THEN [response |-> UserRankResponse(User(<<>>, 0), 0), err |-> got.err]
        ELSE LET ranked == Store_GetUserRank(m, order, username)
             IN  IF ranked.err # "nil"
                 THEN [response |-> UserRankResponse(User(<<>>, 0), 0),
                       err |-> ranked.err]
                 ELSE [response |-> UserRankResponse(User(username,
                                                          got.user.Rating),
                                                     ranked.rank),
                       err |-> "nil"]

\* UpdateScore that adds the user without looking it up
UpdateScore_Upserts(m, username, newRating) ==
    [users |-> Store_AddUser(m, username, newRating).users, err |-> "nil"]

\* GetUser, then AddUser unless the user is missing
Service_UpdateScore(m, username, newRating) ==
    LET got == Store_GetUser(m, username)
    IN  IF got.err # "nil"
        THEN [users |-> m, err |-> got.err]
        ELSE LET added == Store_AddUser(m, username, newRating)
             IN  IF added.err # "nil"
                 THEN [users |-> added.users, err |-> "failed to update score"]
                 ELSE [users |-> added.users, err |-> "nil"]

\* SearchUser giving every result its place in the result list as its rank
SearchUser_RankInList(m, order, query) ==
    LET found == Store_SearchUsers(m, order, query, SearchLimit)
    IN  [results |-> [k \in 1 .. Len(found) |-> UserRankResponse(found[k], k)],
         err |-> "nil"]

\* SearchUsers, then one GetUserRank per user found, its error dropped.  The
\* rank does not depend on the order of the range (that is part of
\* C1_RankCountsStrictlyGreater), so the lookups take the order of the search.
Service_SearchUser(m, order, query) ==
    LET found == Store_SearchUsers(m, order, query, SearchLimit)
    IN  [results |->
             [k \in 1 .. Len(found) |->
                 UserRankResponse(found[k],
                     Store_GetUserRank(m, order, found[k].Username).rank)],
         err |-> "nil"]

\* one tick of StartRandomUpdates: the user at a random place of GetAllUsers
\* gets a random rating; nothing happens on an empty store
Tick(m, order, randomIndex, newRating) ==
    LET count == Store_GetUserCount(m)
        allUsers == Store_GetAllUsers(m, order)
    IN  IF count = 0 \/ randomIndex >= Len(allUsers)
        THEN [users |-> m, username |-> <<>>, err |-> "nil"]
        ELSE LET username == allUsers[randomIndex + 1].Username
                 r == Service_UpdateScore(m, username, newRating)
             IN  [users |-> r.users, username |-> username, err |-> r.err]

\* the four values of the store's GetStats in a StatsResponse, with no error
Service_GetStats(m, order) ==
    LET stats == Store_GetStats(m, order)
    IN  [TotalUsers    |-> stats.total,
         MinRating     |-> stats.minRating,
         MaxRating     |-> stats.maxRating,
         AverageRating |-> stats.avgRating,
         err           |-> "nil"]

----------------------------------------------------------------------------
(* package handlers *)

\* page and limit after strconv.Atoi: a page below 1 becomes 1, a limit
\* outside 1..100 becomes 50
Handler_GetLeaderboard(m, order, page, limit) ==
    LET p == IF page < 1 THEN 1 ELSE page
        l == IF limit < 1 \/ limit > LimitCap THEN DefaultLimit ELSE limit
    IN  Service_GetLeaderboard(m, order, p, l)

\* ShouldBindJSON into SeedRequest: count is required (not 0) and at least 1
BindSeedRequest(count) == count # 0 /\ count >= 1

\* ShouldBindJSON into UpdateScoreRequest: rating is required (not 0), at
\* least 100 and at most 5000
BindUpdateScoreRequest(rating) ==
    rating # 0 /\ rating >= MinRating /\ rating <= MaxRating

\* POST /api/seed
Handler_SeedData(m, count, ratings) ==
    IF ~BindSeedRequest(count)
    THEN [users |-> m, status |-> 400, error |-> "invalid_request"]
    ELSE LET r == Service_SeedData(m, count, ratings)
         IN  IF r.err # "nil"
             THEN [users |-> r.users, status |-> 500, error |-> "seed_failed"]
             ELSE [users |-> r.users, status |-> 200, error |-> ""]

\* GET /api/users/:username
Handler_GetUserRank(m, order, username) ==
    IF username = <<>>
    THEN [status |-> 400, error |-> "invalid_username"]
    ELSE LET r == Service_GetUserRank(m, order, username)
         IN  IF r.err # "nil"
             THEN IF r.err = "user not found"
                  THEN [status |-> 404, error |-> "user_not_found"]
                  ELSE [status |-> 500, error |-> "fetch_failed"]
             ELSE [status |-> 200, error |-> "", userRank |-> r.response]

\* POST /api/users/:username/score
Handler_UpdateScore(m, username, rating) ==
    IF username = <<>>
    THEN [users |-> m, status |-> 400, error |-> "invalid_username"]
    ELSE IF ~BindUpdateScoreRequest(rating)
    THEN [users |-> m, status |-> 400, error |-> "invalid_request"]
    ELSE LET r == Service_UpdateScore(m, username, rating)
         IN  IF r.err # "nil"
             THEN IF r.err = "user not found"
                  THEN [users |-> r.users, status |-> 404,
                        error |-> "user_not_found"]
                  ELSE [users |-> r.users, status |-> 500,
                        error |-> "update_failed"]
             ELSE [users |-> r.users, status |-> 200, error |-> ""]

----------------------------------------------------------------------------
(* The client's leaderboard screen *)

\* fetchLeaderboard(pageNum, append): the list replaced or extended by the
\* entries of the page, page and hasMore taken from the response
fetchLeaderboard(m, order, leaderboard, pageNum, limit, append) ==
    LET response == Handler_GetLeaderboard(m, order, pageNum, limit)
    IN  [leaderboard |-> IF append THEN leaderboard \o response.Entries
                         ELSE response.Entries,
         page        |-> response.Page,
         hasMore     |-> response.HasMore,
         totalUsers  |-> response.TotalUsers,
         limit       |-> limit]

----------------------------------------------------------------------------
(* The calls *)

Init ==
    /\ users = NewMemoryStore
    /\ resp = [op |-> "NewMemoryStore"]
    /\ main = "serving"
    /\ mu = NewRWMutex
    /\ procs = [p \in Procs |-> Idle]
    /\ lastWrite = NewMemoryStore
    /\ ctx = "live"

OpAddUser(username, rating) ==
    /\ UNCHANGED rest
    /\ LET r == Store_AddUser(users, username, rating)
       IN  /\ users' = r.users
           /\ resp' = [op |-> "AddUser", username |-> username,
                       rating |-> rating, err |-> r.err]

OpClear ==
    /\ UNCHANGED rest
    /\ users' = Store_Clear(users)
    /\ resp' = [op |-> "Clear"]

OpGetUser(username) ==
    /\ UNCHANGED rest
    /\ LET r == Store_GetUser(users, username)
       IN  /\ resp' = [op |-> "GetUser", username |-> username,
                       user |-> r.user, err |-> r.err]
           /\ UNCHANGED users

OpGetAllUsers ==
    /\ UNCHANGED rest
    /\ \E order \in IterOrders(users) :
           /\ resp' = [op |-> "GetAllUsers",
                       users |-> Store_GetAllUsers(users, order)]
           /\ UNCHANGED users

OpGetUserCount ==
    /\ UNCHANGED rest
    /\ resp' = [op |-> "GetUserCount", count |-> Store_GetUserCount(users)]
    /\ UNCHANGED users

OpGetUserRank(username) ==
    /\ UNCHANGED rest
    /\ \E order \in IterOrders(users) :
           LET r == Store_GetUserRank(users, order, username)
           IN  /\ resp' = [op |-> "GetUserRank", username |-> username,
                           rank |-> r.rank, err |-> r.err]
               /\ UNCHANGED users

OpSearchUsers(query, limit) ==
    /\ UNCHANGED rest
    /\ \E order \in IterOrders(users) :
           /\ resp' = [op |-> "SearchUsers", query |-> query, limit |-> limit,
                       users |-> Store_SearchUsers(users, order, query, limit)]
           /\ UNCHANGED users

OpGetLeaderboard(page, limit) ==
    /\ UNCHANGED rest
    /\ \E order \in IterOrders(users) :
           LET r == Service_GetLeaderboard(users, order, page, limit)
           IN  /\ resp' = [op |-> "GetLeaderboard", page |-> page,
                           limit |-> limit, response |-> r]
               /\ UNCHANGED users

OpUpdateScore(username, newRating) ==
    /\ UNCHANGED rest
    /\ LET r == Service_UpdateScore(users, username, newRating)
       IN  /\ users' = r.users
           /\ resp' = [op |-> "UpdateScore", username |-> username,
                       rating |-> newRating, err |-> r.err]

OpSearchUser(query) ==
    /\ UNCHANGED rest
    /\ \E order \in IterOrders(users) :
           LET r == Service_SearchUser(users, order, query)
           IN  /\ resp' = [op |-> "SearchUser", query |-> query,
                           results |-> r.results, err |-> r.err]
               /\ UNCHANGED users

OpGetStats ==
    /\ UNCHANGED rest
    /\ \E order \in IterOrders(users) :
           /\ resp' = [op |-> "GetStats",
                       response |-> Service_GetStats(users, order)]
           /\ UNCHANGED users

\* the screen opens or refreshes: page 1 replaces the list

OpRefresh(limit) ==
    /\ UNCHANGED rest
    /\ \E order \in IterOrders(users) :
           /\ resp' = [op |-> "fetchLeaderboard",
                       screen |-> fetchLeaderboard(users, order, <<>>, 1, limit,
                                                   FALSE)]
           /\ UNCHANGED users

\* handleLoadMore: the next page is appended while the last one had more
OpLoadMore ==
    /\ UNCHANGED rest
    /\ resp.op = "fetchLeaderboard"
    /\ resp.screen.hasMore
    /\ \E order \in IterOrders(users) :
        resp' = [op |-> "fetchLeaderboard",
                 screen |-> fetchLeaderboard(users, order,
                                             resp.screen.leaderboard,
                                             resp.screen.page + 1,
                                             resp.screen.limit, TRUE)]
    /\ UNCHANGED users

Next ==
    \/ \E u \in Usernames, r \in Ratings : OpAddUser(u, r)
    \/ OpClear
    \/ \E u \in Usernames : OpGetUser(u)
    \/ OpGetAllUsers
    \/ OpGetUserCount
    \/ \E u \in Usernames : OpGetUserRank(u)
    \/ \E q \in Queries, l \in 1 .. MaxLimit : OpSearchUsers(q, l)
    \/ \E p \in Pages, l \in Limits : OpGetLeaderboard(p, l)
    \/ \E u \in Usernames, r \in Ratings : OpUpdateScore(u, r)
    \/ \E q \in Queries : OpSearchUser(q)
    \/ OpGetStats
    \/ \E l \in Limits : OpRefresh(l)
    \/ OpLoadMore

Spec == Init /\ [][Next]_vars

----------------------------------------------------------------------------
(* The store filled with four users, two of them level *)

\* "A", "B", "C" and "D" with the ratings they are added with
Scenario ==
    (<<65>> :> 5000) @@ (<<66>> :> 3000) @@ (<<67>> :> 3000) @@ (<<68>> :> 100)

ScenarioNext ==
    \/ \E u \in DOMAIN Scenario : OpAddUser(u, Scenario[u])
    \/ \E u \in DOMAIN Scenario : OpGetUser(u)
    \/ OpGetUserCount
    \/ \E u \in DOMAIN Scenario : OpGetUserRank(u)
    \/ OpGetLeaderboard(1, 2)
    \/ OpGetStats

ScenarioSpec == Init /\ [][ScenarioNext]_vars

----------------------------------------------------------------------------
(* The server: main, the requests it serves and the random updates *)

\* the counts a seed request carries
Seeds == -1 .. MaxSeed

\* the usernames in the path of a request: none, "A" and the seeded ones
PathUsernames == { <<>>, <<65>> } \cup { SeedName(i) : i \in 1 .. MaxSeed }

\* the ratings an update request carries: none (0) and those around the limits
BodyRatings == { 0 } \cup Ratings

ServeSeedData(count) ==
    /\ main = "serving"
    /\ \E ratings \in [1 .. (IF count > 0 THEN count ELSE 0) -> RandomRatings] :
           LET r == Handler_SeedData(users, count, ratings)
           IN  /\ users' = r.users
               /\ resp' = [op |-> "Handler.SeedData", count |-> count,
                           status |-> r.status, error |-> r.error]
    /\ UNCHANGED <<main, mu, procs, lastWrite, ctx>>

ServeGetUserRank(username) ==
    /\ main = "serving"
    /\ \E order \in IterOrders(users) :
           resp' = [op |-> "Handler.GetUserRank", username |-> username,
                    response |-> Handler_GetUserRank(users, order, username)]
    /\ UNCHANGED <<users, main, mu, procs, lastWrite, ctx>>

ServeUpdateScore(username, rating) ==
    /\ main = "serving"
    /\ LET r == Handler_UpdateScore(users, username, rating)
       IN  /\ users' = r.users
           /\ resp' = [op |-> "Handler.UpdateScore", username |-> username,
                       rating |-> rating, status |-> r.status,
                       error |-> r.error]
    /\ UNCHANGED <<main, mu, procs, lastWrite, ctx>>

\* the ticker of StartRandomUpdates fires: its context is context.Background(),
\* which is never done, so the loop takes this branch as long as the process
\* lives
UpdaterTick ==
    /\ main # "exited"
    /\ \E order \in IterOrders(users) :
       \E randomIndex \in (IF Store_GetUserCount(users) = 0 THEN { 0 }
                           ELSE RandIntn(Store_GetUserCount(users))) :
       \E newRating \in RandomRatings :
           LET r == Tick(users, order, randomIndex, newRating)
           IN  /\ users' = r.users
               /\ resp' = [op |-> "StartRandomUpdates", username |-> r.username,
                           rating |-> newRating, err |-> r.err]
    /\ UNCHANGED <<main, mu, procs, lastWrite, ctx>>

\* main receives SIGINT or SIGTERM from quit and calls srv.Shutdown
Signal ==
    /\ main = "serving"
    /\ main' = "shutdown"
    /\ resp' = [op |-> "quit"]
    /\ UNCHANGED <<users, mu, procs, lastWrite, ctx>>

\* srv.Shutdown returns and main with it: the process ends
Exit ==
    /\ main = "shutdown"
    /\ main' = "exited"
    /\ resp' = [op |-> "exit"]
    /\ UNCHANGED <<users, mu, procs, lastWrite, ctx>>

ServerNext ==
    \/ \E count \in Seeds : ServeSeedData(count)
    \/ \E u \in PathUsernames : ServeGetUserRank(u)
    \/ \E u \in PathUsernames, r \in BodyRatings : ServeUpdateScore(u, r)
    \/ UpdaterTick
    \/ Signal
    \/ Exit

ServerSpec == Init /\ [][ServerNext]_vars

----------------------------------------------------------------------------
(* Goroutines calling the store at the same time *)

\* the calls they make: on "A" and "B", with a rating of 100 or 5000
ConcCalls ==
    { [op |-> "AddUser", username |-> u, rating |-> r] :
          u \in { <<65>>, <<66>> }, r \in { MinRating, MaxRating } }
    \cup { [op |-> "GetUser", username |-> u] : u \in { <<65>>, <<66>> } }
    \cup { [op |-> "GetUserRank", username |-> <<65>>],
           [op |-> "SearchUsers", query |-> <<97>>, limit |-> 1],
           [op |-> "Clear"], [op |-> "GetAllUsers"], [op |-> "GetUserCount"],
           [op |-> "GetStats"] }

\* goroutine p calls a method of the store
Call(p, call) ==
    /\ procs[p].pc = "idle"
    /\ procs' = [procs EXCEPT ![p] = [pc |-> "lock", call |-> call]]
    /\ UNCHANGED <<users, resp, main, mu, lastWrite, ctx>>

\* p is in s.mu.Lock(): it is the one writer let through and announces
\* itself, which holds back the readers that come from now on
Lock(p) ==
    /\ procs[p].pc = "lock"
    /\ IsWrite(procs[p].call)
    /\ CanLock(mu)
    /\ mu' = [mu EXCEPT !.pending = TRUE]
    /\ procs' = [procs EXCEPT ![p].pc = "wait"]
    /\ UNCHANGED <<users, resp, main, lastWrite, ctx>>

\* the readers that held the lock have left: s.mu.Lock() returns to p; the
\* write p is about to make is noted
Locked(p) ==
    /\ procs[p].pc = "wait"
    /\ IsWrite(procs[p].call)
    /\ mu.readers = 0
    /\ mu' = [mu EXCEPT !.writer = TRUE, !.pending = FALSE]
    /\ procs' = [procs EXCEPT ![p].pc = "body"]
    /\ \E order \in IterOrders(lastWrite) :
           lastWrite' = Run(lastWrite, order, procs[p].call).users
    /\ UNCHANGED <<users, resp, main, ctx>>

\* s.mu.RLock() returns to p
RLock(p) ==
    /\ procs[p].pc = "lock"
    /\ ~IsWrite(procs[p].call)
    /\ CanRLock(mu)
    /\ mu' = [mu EXCEPT !.readers = @ + 1]
    /\ procs' = [procs EXCEPT ![p].pc = "body"]
    /\ UNCHANGED <<users, resp, main, lastWrite, ctx>>

\* p runs the method's body
Body(p) ==
    /\ procs[p].pc = "body"
    /\ \E order \in IterOrders(users) :
           LET r == Run(users, order, procs[p].call)
           IN  /\ users' = r.users
               /\ resp' = [op |-> procs[p].call.op, call |-> procs[p].call,
                           result |-> r.result]
    /\ procs' = [procs EXCEPT ![p].pc = "unlock"]
    /\ UNCHANGED <<main, mu, lastWrite, ctx>>

\* a return path that leaves the read lock held
RUnlocked_StillHeld(m) == m

\* the mutex after Unlock(): the writer has left
Unlocked(m) == [m EXCEPT !.writer = FALSE]

\* the mutex after RUnlock(): one reader fewer
RUnlocked(m) == [m EXCEPT !.readers = @ - 1]

\* the deferred s.mu.Unlock() runs and the method returns
Unlock(p) ==
    /\ procs[p].pc = "unlock"
    /\ IsWrite(procs[p].call)
    /\ mu' = Unlocked(mu)
    /\ procs' = [procs EXCEPT ![p] = Idle]
    /\ UNCHANGED <<users, resp, main, lastWrite, ctx>>

\* the deferred s.mu.RUnlock() runs and the method returns
RUnlock(p) ==
    /\ procs[p].pc = "unlock"
    /\ ~IsWrite(procs[p].call)
    /\ mu' = RUnlocked(mu)
    /\ procs' = [procs EXCEPT ![p] = Idle]
    /\ UNCHANGED <<users, resp, main, lastWrite, ctx>>

ConcNext ==
    \E p \in Procs :
        \/ \E call \in ConcCalls : Call(p, call)
        \/ Lock(p)
        \/ Locked(p)
        \/ RLock(p)
        \/ Body(p)
        \/ Unlock(p)
        \/ RUnlock(p)

ConcSpec == Init /\ [][ConcNext]_vars

\* every method of the store once: the two writers and the six readers, among
\* them the calls a tick of StartRandomUpdates makes (GetUserCount,
\* GetAllUsers, then GetUser and AddUser in UpdateScore) and those of
\* SearchUser (SearchUsers, then GetUserRank), each a call of its own
LockCalls ==
    { [op |-> "AddUser", username |-> <<65>>, rating |-> MinRating],
      [op |-> "Clear"],
      [op |-> "GetUser", username |-> <<65>>],
      [op |-> "GetAllUsers"], [op |-> "GetUserCount"],
      [op |-> "GetUserRank", username |-> <<65>>],
      [op |-> "SearchUsers", query |-> <<97>>, limit |-> 1],
      [op |-> "GetStats"] }

LockNext ==
    \E p \in Procs :
        \/ \E call \in LockCalls : Call(p, call)
        \/ Lock(p)
        \/ Locked(p)
        \/ RLock(p)
        \/ Body(p)
        \/ Unlock(p)
        \/ RUnlock(p)

LockSpec == Init /\ [][LockNext]_vars

\* The goroutines run and the lock is fair.  A goroutine that holds the lock
\* runs the body and the deferred unlock (nothing in a body waits: no I/O, no
\* channel, no second lock), and a writer that has announced itself goes on
\* once the readers have left, which no later reader can prevent.  A goroutine
\* waiting in Lock() or RLock() gets through if the way is free again and
\* again: Unlock() lets in every reader that waits in RLock() before the next
\* writer can announce itself, and the writers' inner mutex hands over to the
\* longest waiter (sync.Mutex in starvation mode).
\* (A goroutine is in one place at a time, so one condition covers the steps
\* it takes that no other goroutine can disable, and one the two ways of
\* asking for the lock.)
LockFairSpec ==
    /\ LockSpec
    /\ \A p \in Procs :
           /\ WF_vars(Locked(p) \/ Body(p) \/ Unlock(p) \/ RUnlock(p))
           /\ SF_vars(Lock(p) \/ RLock(p))

----------------------------------------------------------------------------
(* A service call whose store calls interleave with other goroutines' writes *)

\* the goroutine that runs the service call
Caller == 1

\* the usernames written meanwhile: "A" and "ab", both found by the query "a"
RaceUsernames == { <<65>>, <<97, 98>> }

RaceCalls ==
    { [op |-> "GetUserRank", username |-> u] : u \in RaceUsernames }
    \cup { [op |-> "GetLeaderboard", page |-> p, limit |-> l] :
               p \in { 1, 2 }, l \in { 1, 2 } }
    \cup { [op |-> "SearchUser", query |-> <<97>>] }

\* the frame of the call with the history of what the map held since the call
\* began and the number of writes that fell into the call
Noted(frame, m) ==
    [frame EXCEPT !.states = @ \cup { m }, !.writes = @ + 1]

\* the Caller enters a method of the service; its response is yet to come
SvcCall(call) ==
    /\ procs[Caller] = Idle
    /\ procs' = [procs EXCEPT ![Caller] =
                     [pc |-> CASE call.op = "GetUserRank" -> "GetUser"
                               [] call.op = "GetLeaderboard" -> "GetAllUsers"
                               [] call.op = "SearchUser" -> "SearchUsers",
                      call |-> call, states |-> { users }, writes |-> 0]]
    /\ resp' = [op |-> "Service", call |-> call]
    /\ UNCHANGED <<users, main, mu, lastWrite, ctx>>

\* another goroutine's AddUser runs from Lock to Unlock
Upsert(username, rating) ==
    /\ procs[Caller] # Idle => procs[Caller].writes < MaxWrites
    /\ users' = Store_AddUser(users, username, rating).users
    /\ procs' = IF procs[Caller] = Idle THEN procs
                ELSE [procs EXCEPT ![Caller] = Noted(@, users')]
    /\ UNCHANGED <<resp, main, mu, lastWrite, ctx>>

\* another goroutine's Clear runs from Lock to Unlock
Cleared ==
    /\ procs[Caller] # Idle => procs[Caller].writes < MaxWrites
    /\ users' = Store_Clear(users)
    /\ procs' = IF procs[Caller] = Idle THEN procs
                ELSE [procs EXCEPT ![Caller] = Noted(@, users')]
    /\ UNCHANGED <<resp, main, mu, lastWrite, ctx>>

\* GetUserRank, line 100: s.store.GetUser, and the return of its error
StepGetUser ==
    /\ procs[Caller].pc = "GetUser"
    /\ LET frame == procs[Caller]
           got   == Store_GetUser(users, frame.call.username)
       IN  IF got.err # "nil"
           THEN /\ resp' = [op |-> "Service.GetUserRank", call |-> frame.call,
                            response |-> UserRankResponse(User(<<>>, 0), 0),
                            err |-> got.err, states |-> frame.states]
                /\ procs' = [procs EXCEPT ![Caller] = Idle]
           ELSE /\ procs' = [procs EXCEPT ![Caller] =
                                [pc |-> "GetUserRank", call |-> frame.call,
                                 states |-> frame.states,
                                 writes |-> frame.writes, user |-> got.user]]
                /\ UNCHANGED resp
    /\ UNCHANGED <<users, main, mu, lastWrite, ctx>>

\* GetUserRank, line 105: s.store.GetUserRank, and the return
StepGetUserRank ==
    /\ procs[Caller].pc = "GetUserRank"
    /\ \E order \in IterOrders(users) :
           LET frame  == procs[Caller]
               ranked == Store_GetUserRank(users, order, frame.call.username)
           IN  resp' = [op |-> "Service.GetUserRank", call |-> frame.call,
                        response |->
                            IF ranked.err # "nil"
                            THEN UserRankResponse(User(<<>>, 0), 0)
                            ELSE UserRankResponse(
                                     User(frame.call.username,
                                          Deref(frame.user, users).Rating),
                                     ranked.rank),
                        err |-> ranked.err, states |-> frame.states]
    /\ procs' = [procs EXCEPT ![Caller] = Idle]
    /\ UNCHANGED <<users, main, mu, lastWrite, ctx>>

\* GetLeaderboard, line 47: s.store.GetAllUsers
StepGetAllUsers ==
    /\ procs[Caller].pc = "GetAllUsers"
    /\ \E order \in IterOrders(users) :
           LET frame == procs[Caller]
           IN  procs' = [procs EXCEPT ![Caller] =
                            [pc |-> "respond", call |-> frame.call,
                             states |-> frame.states, writes |-> frame.writes,
                             allUsers |-> Store_GetAllUsers(users, order)]]
    /\ UNCHANGED <<users, resp, main, mu, lastWrite, ctx>>

\* GetLeaderboard, lines 48-95: the page is cut from the slice and returned
StepRespond ==
    /\ procs[Caller].pc = "respond"
    /\ LET frame == procs[Caller]
           read  == [i \in 1 .. Len(frame.allUsers) |->
                         Deref(frame.allUsers[i], users)]
       IN  resp' = [op |-> "Service.GetLeaderboard", call |-> frame.call,
                    response |-> Leaderboard(read, frame.call.page,
                                             frame.call.limit),
                    states |-> frame.states]
    /\ procs' = [procs EXCEPT ![Caller] = Idle]
    /\ UNCHANGED <<users, main, mu, lastWrite, ctx>>

\* SearchUser, line 138: s.store.SearchUsers
StepSearchUsers ==
    /\ procs[Caller].pc = "SearchUsers"
    /\ \E order \in IterOrders(users) :
           LET frame == procs[Caller]
           IN  procs' = [procs EXCEPT ![Caller] =
                            [pc |-> "rank", call |-> frame.call,
                             states |-> frame.states, writes |-> frame.writes,
                             found |-> Store_SearchUsers(users, order,
                                                         frame.call.query,
                                                         SearchLimit),
                             results |-> <<>>]]
    /\ UNCHANGED <<users, resp, main, mu, lastWrite, ctx>>

\* SearchUser, lines 141-148: one pass of the loop, the error of GetUserRank
\* dropped
StepRank ==
    /\ procs[Caller].pc = "rank"
    /\ Len(procs[Caller].results) < Len(procs[Caller].found)
    /\ \E order \in IterOrders(users) :
           LET frame == procs[Caller]
               user  == frame.found[Len(frame.results) + 1]
               rank  == Store_GetUserRank(users, order, user.Username).rank
           IN  procs' = [procs EXCEPT ![Caller].results =
                            Append(@, UserRankResponse(
                                          User(user.Username,
                                               Deref(user, users).Rating),
                                          rank))]
    /\ UNCHANGED <<users, resp, main, mu, lastWrite, ctx>>

\* SearchUser, line 150: the results are returned with a nil error
StepReturnResults ==
    /\ procs[Caller].pc = "rank"
    /\ Len(procs[Caller].results) = Len(procs[Caller].found)
    /\ resp' = [op |-> "Service.SearchUser", call |-> procs[Caller].call,
                results |-> procs[Caller].results, err |-> "nil",
                states |-> procs[Caller].states]
    /\ procs' = [procs EXCEPT ![Caller] = Idle]
    /\ UNCHANGED <<users, main, mu, lastWrite, ctx>>

RaceNext ==
    \/ \E call \in RaceCalls : SvcCall(call)
    \/ \E u \in RaceUsernames, r \in { MinRating, MaxRating } : Upsert(u, r)
    \/ StepGetUser
    \/ StepGetUserRank
    \/ StepGetAllUsers
    \/ StepRespond
    \/ StepSearchUsers
    \/ StepRank
    \/ StepReturnResults

\* writes to the store only
RaceSpec == Init /\ [][RaceNext]_vars

RaceClearNext ==
    \/ RaceNext
    \/ Cleared

\* writes to the store and Clear
RaceClearSpec == Init /\ [][RaceClearNext]_vars

----------------------------------------------------------------------------
(* StartRandomUpdates with a context that can be cancelled *)

\* the goroutine that runs StartRandomUpdates
Updater == 2

\* a receive from ctx.Done() that is never ready
Done_Never(c) == FALSE

\* a receive from ctx.Done() is ready once the context is cancelled
Done(c) == c = "cancelled"

\* go StartRandomUpdates(ctx): the goroutine reaches the select
Start ==
    /\ procs[Updater] = Idle
    /\ procs' = [procs EXCEPT ![Updater] = [pc |-> "select"]]
    /\ UNCHANGED <<users, resp, main, mu, lastWrite, ctx>>

\* the owner of the context cancels it
Cancel ==
    /\ ctx = "live"
    /\ ctx' = "cancelled"
    /\ UNCHANGED <<users, resp, main, mu, procs, lastWrite>>

\* the select takes case <-ticker.C, which it may whenever the ticker has
\* fired, the other case being ready or not (lines 176-183): GetUserCount,
\* back to the select on 0, else the random index.  began notes what the
\* context was when the tick began.
TickCount ==
    /\ procs[Updater].pc = "select"
    /\ LET count == Store_GetUserCount(users)
       IN  IF count = 0
           THEN UNCHANGED procs
           ELSE \E randomIndex \in RandIntn(count) :
                    procs' = [procs EXCEPT ![Updater] =
                                 [pc |-> "GetAllUsers", began |-> ctx,
                                  randomIndex |-> randomIndex]]
    /\ UNCHANGED <<users, resp, main, mu, lastWrite, ctx>>

\* lines 184-190: GetAllUsers, back to the select when the index is past the
\* slice, else the username at the index and the new rating
TickPick ==
    /\ procs[Updater].pc = "GetAllUsers"
    /\ \E order \in IterOrders(users) :
           LET frame    == procs[Updater]
               allUsers == Store_GetAllUsers(users, order)
           IN  IF frame.randomIndex >= Len(allUsers)
               THEN procs' = [procs EXCEPT ![Updater] = [pc |-> "select"]]
               ELSE \E newRating \in RandomRatings :
                        procs' = [procs EXCEPT ![Updater] =
                                     [pc |-> "UpdateScore",
                                      began |-> frame.began,
                                      username |->
                                          allUsers[frame.randomIndex + 1]
                                              .Username,
                                      newRating |-> newRating]]
    /\ UNCHANGED <<users, resp, main, mu, lastWrite, ctx>>

\* lines 192-194: UpdateScore, its error logged, and back to the select
TickUpdate ==
    /\ procs[Updater].pc = "UpdateScore"
    /\ LET frame == procs[Updater]
           r     == Service_UpdateScore(users, frame.username, frame.newRating)
       IN  /\ users' = r.users
           /\ resp' = [op |-> "StartRandomUpdates", username |-> frame.username,
                       rating |-> frame.newRating, err |-> r.err,
                       began |-> frame.began]
    /\ procs' = [procs EXCEPT ![Updater] = [pc |-> "select"]]
    /\ UNCHANGED <<main, mu, lastWrite, ctx>>

\* the select takes case <-ctx.Done() (lines 174-175): the function returns
Return ==
    /\ procs[Updater].pc = "select"
    /\ Done(ctx)
    /\ procs' = [procs EXCEPT ![Updater] = [pc |-> "returned"]]
    /\ UNCHANGED <<users, resp, main, mu, lastWrite, ctx>>

UpdaterNext ==
    \/ Start
    \/ Cancel
    \/ TickCount
    \/ TickPick
    \/ TickUpdate
    \/ Return
    \/ \E u \in RaceUsernames, r \in { MinRating, MaxRating } : Upsert(u, r)

UpdaterSpec == Init /\ [][UpdaterNext]_vars

\* a tick that has begun runs to its end, and a select that finds ctx.Done()
\* ready again and again takes that case in the end: it chooses among the
\* ready cases at random
UpdaterFairSpec ==
    /\ UpdaterSpec
    /\ WF_vars(TickPick)
    /\ WF_vars(TickUpdate)
    /\ SF_vars(Return)

----------------------------------------------------------------------------
(* What the claims speak of *)

Stored == DOMAIN users

\* the stored users rated strictly higher than username
RatedHigher(username) == { v \in Stored : users[v] > users[username] }

ValidRating(rating) == rating >= MinRating /\ rating <= MaxRating

\* s is in rating-descending order, equal ratings in username-ascending order
InLeaderboardOrder(s) ==
    \A i, j \in 1 .. Len(s) :
        i < j => \/ s[i].Rating > s[j].Rating
                 \/ /\ s[i].Rating = s[j].Rating
                    /\ StrLess(s[i].Username, s[j].Username)

\* s holds every stored user exactly once, with the stored rating
HoldsEveryUserOnce(s) ==
    /\ Len(s) = Cardinality(Stored)
    /\ \A u \in Stored :
           \E i \in 1 .. Len(s) :
               s[i].Username = u /\ s[i].Rating = users[u]

\* username and rating of every element of s, in order
Plain(s) == [i \in 1 .. Len(s) |-> User(s[i].Username, s[i].Rating)]

----------------------------------------------------------------------------
(* The claims *)

\* C1: in every state of the store and for every stored username, whatever
\* the order in which the map is ranged over, GetUserRank returns 1 plus the
\* number of stored users with a strictly greater rating, and no error; the
\* GetUserRank call that returned last returned that rank.
C1_RankCountsStrictlyGreater ==
    /\ \A u \in Stored, order \in IterOrders(users) :
           Store_GetUserRank(users, order, u)
               = [rank |-> 1 + Cardinality(RatedHigher(u)), err |-> "nil"]
    /\ (resp.op = "GetUserRank" /\ resp.err = "nil")
           => resp.rank = 1 + Cardinality(RatedHigher(resp.username))

\* C1 witness: GetUserRank returned rank 3 for a user below two users, which
\* share rank 1 (rank 2 is skipped).
C1_Witness ==
    /\ resp.op = "GetUserRank"
    /\ resp.err = "nil"
    /\ resp.rank = 3
    /\ \E v, w \in Stored :
           v # w /\ users[v] = users[w] /\ users[v] > users[resp.username]

\* C2: every entry of the GetLeaderboard response that returned last carries
\* the rank that the store's GetUserRank computes for the entry's username.
C2_LeaderboardRankIsStoreRank ==
    resp.op = "GetLeaderboard" =>
        \A k \in 1 .. Len(resp.response.Entries) :
            \A order \in IterOrders(users) :
                Store_GetUserRank(users, order,
                                  resp.response.Entries[k].Username)
                    = [rank |-> resp.response.Entries[k].Rank, err |-> "nil"]

\* C2 witness: a page after the first whose entry has a rank shared with the
\* entry before it in the snapshot (a tie that crosses the page boundary).
C2_Witness ==
    /\ resp.op = "GetLeaderboard"
    /\ resp.page = 2
    /\ resp.limit = 1
    /\ Len(resp.response.Entries) = 1
    /\ resp.response.Entries[1].Rank = 1

\* C3: an AddUser call with a rating outside [100, 5000] returns the
\* InvalidRating error and leaves the map as it was; with a rating inside the
\* range it returns no error and the user has that rating.
C3_AddUserRejectsInvalidRating ==
    [][resp'.op = "AddUser" =>
          IF ValidRating(resp'.rating)
          THEN /\ resp'.err = "nil"
               /\ resp'.username \in DOMAIN users'
               /\ users'[resp'.username] = resp'.rating
          ELSE /\ resp'.err = "InvalidRating"
               /\ users' = users]_vars

\* C4: the sequence GetAllUsers returned holds every stored user exactly once,
\* in rating-descending order with equal ratings in username-ascending order,
\* and every order of ranging over the map gives that same sequence.
C4_GetAllUsersSorted ==
    resp.op = "GetAllUsers" =>
        /\ HoldsEveryUserOnce(resp.users)
        /\ InLeaderboardOrder(resp.users)
        /\ \A order \in IterOrders(users) :
               Store_GetAllUsers(users, order) = resp.users

\* C4 witness: GetAllUsers returned three users, two of them with one rating.
C4_Witness ==
    /\ resp.op = "GetAllUsers"
    /\ Len(resp.users) = 3
    /\ resp.users[1].Rating = resp.users[2].Rating
    /\ resp.users[2].Rating > resp.users[3].Rating

\* C5: when the client has loaded page 1, 2, ... with one limit up to the
\* first response without has_more, with no other call in between, its list
\* holds exactly GetUserCount entries, every stored user once, in the order
\* of the sorted snapshot.
C5_PagesCoverSnapshot ==
    (resp.op = "fetchLeaderboard" /\ ~resp.screen.hasMore) =>
        /\ Len(resp.screen.leaderboard) = Store_GetUserCount(users)
        /\ HoldsEveryUserOnce(resp.screen.leaderboard)
        /\ \A order \in IterOrders(users) :
               Plain(resp.screen.leaderboard)
                   = Plain(Store_GetAllUsers(users, order))

\* C5 witness: three pages of one entry each were loaded and the third had
\* no more.
C5_Witness ==
    /\ resp.op = "fetchLeaderboard"
    /\ ~resp.screen.hasMore
    /\ resp.screen.limit = 1
    /\ resp.screen.page = 3
    /\ Len(resp.screen.leaderboard) = 3

\* C6: for every page >= 1 and limit in [1,100], with offset = (page-1)*limit
\* and total the number of stored users, GetLeaderboard returns the entries at
\* positions [offset, min(offset+limit, total)) of the sorted snapshot, echoes
\* page and limit, reports total_users = total, and has_more is true exactly
\* when offset+limit < total.  (With page-1 >= total the offset is at least
\* total, since limit >= 1: the window is empty and the product not needed.)
C6_PageIsWindowOfSnapshot ==
    resp.op = "GetLeaderboard" =>
        LET total  == Cardinality(Stored)
            beyond == resp.page - 1 >= total
            offset == IF beyond THEN total ELSE (resp.page - 1) * resp.limit
            end    == IF offset + resp.limit < total
                      THEN offset + resp.limit ELSE total
        IN  /\ \A order \in IterOrders(users) :
                   Plain(resp.response.Entries)
                       = SubSeq(Plain(Store_GetAllUsers(users, order)),
                                offset + 1, end)
            /\ resp.response.Page = resp.page
            /\ resp.response.Limit = resp.limit
            /\ resp.response.TotalUsers = total
            /\ resp.response.HasMore
                   = (~beyond /\ offset + resp.limit < total)

\* C7: a GetLeaderboard call whose offset (page-1)*limit is at least the
\* number of stored users (so every call on an empty store) returns an empty
\* entry list, has_more = false and no error.
C7_PageBeyondEndIsEmpty ==
    (/\ resp.op = "GetLeaderboard"
     /\ \/ resp.page - 1 >= Cardinality(Stored)
        \/ (resp.page - 1) * resp.limit >= Cardinality(Stored)) =>
        /\ resp.response.Entries = <<>>
        /\ resp.response.HasMore = FALSE
        /\ resp.response.err = "nil"

\* C8: for two stored users a and b, GetUserRank gives a the smaller rank if
\* a has the greater rating, and both the same rank if their ratings are
\* equal.
C8_RankFollowsRating ==
    \A a, b \in Stored :
        a # b =>
            \A oa, ob \in IterOrders(users) :
                LET ra == Store_GetUserRank(users, oa, a).rank
                    rb == Store_GetUserRank(users, ob, b).rank
                IN  /\ users[a] > users[b] => ra < rb
                    /\ users[a] = users[b] => ra = rb

\* C8 witness: GetUserRank returned for a user who shares the rating of a second
\* user and is rated above a third.
C8_Witness ==
    /\ resp.op = "GetUserRank"
    /\ resp.err = "nil"
    /\ \E b, c \in Stored :
           /\ b # resp.username
           /\ users[b] = users[resp.username]
           /\ users[c] < users[resp.username]

\* C9: every entry SearchUser returned is a stored user, with the stored
\* rating, whose username contains the query when case is ignored, and its
\* rank is 1 plus the number of all stored users rated strictly higher: the
\* rank of the full ranking, not the place in the result list.
C9_SearchCarriesGlobalRank ==
    resp.op = "SearchUser" =>
        /\ resp.err = "nil"
        /\ \A k \in 1 .. Len(resp.results) :
               LET e == resp.results[k]
               IN  /\ e.Username \in Stored
                   /\ e.Rating = users[e.Username]
                   /\ Contains(ToLower(e.Username), ToLower(resp.query))
                   /\ e.Rank = 1 + Cardinality(RatedHigher(e.Username))

\* C9 witness: SearchUser with the query "B" returned "ab" first in its list
\* with a rank below the first (a user that does not match is rated higher).
C9_Witness ==
    /\ resp.op = "SearchUser"
    /\ resp.query = <<66>>
    /\ Len(resp.results) >= 1
    /\ resp.results[1].Username = <<97, 98>>
    /\ resp.results[1].Rank > 1

\* C10: SearchUsers(query, limit) returns the first limit entries (all of
\* them if there are fewer) of the list of all the users whose username
\* contains the query, that list in rating-descending, username-ascending
\* order, whatever the order in which the map is ranged over.
C10_SearchTruncatesSortedMatches ==
    resp.op = "SearchUsers" =>
        LET matches == { User(u, users[u]) : u \in
                           { v \in Stored :
                               Contains(ToLower(v), ToLower(resp.query)) } }
            n       == Cardinality(matches)
            ordered == CHOOSE o \in [1 .. n -> matches] : InLeaderboardOrder(o)
        IN  resp.users
                = SubSeq(ordered, 1, IF resp.limit < n THEN resp.limit ELSE n)

\* C11: GetStats on a store with no user returns the EmptyRegistry error, not
\* a response of zeros with no error.
C11_GetStatsEmptyIsError ==
    (resp.op = "GetStats" /\ Stored = {}) =>
        resp.response.err = "EmptyRegistry"

\* C12: GetStats on a store with at least one user returns total = the number
\* of stored users, min and max = the smallest and the largest stored rating,
\* and an average whose product with total is the sum of the stored ratings.
C12_GetStatsOfAllRatings ==
    (resp.op = "GetStats" /\ Stored # {}) =>
        LET order == CHOOSE o \in IterOrders(users) : TRUE
            sum[i \in 0 .. Len(order)] ==
                IF i = 0 THEN 0 ELSE sum[i - 1] + users[order[i]]
            r == resp.response
        IN  /\ r.TotalUsers = Cardinality(Stored)
            /\ \E u \in Stored : users[u] = r.MinRating
            /\ \A u \in Stored : users[u] >= r.MinRating
            /\ \E u \in Stored : users[u] = r.MaxRating
            /\ \A u \in Stored : users[u] <= r.MaxRating
            /\ r.AverageRating.num * r.TotalUsers
                   = sum[Len(order)] * r.AverageRating.den
            /\ r.err = "nil"

\* C13: once A:5000, B:3000, C:3000 and D:100 have been added to the empty
\* store, in whatever order, GetUserRank gives A 1, B 2, C 2 and D 4,
\* GetLeaderboard(1, 2) gives A with rank 1 and B with rank 2, 4 users in all
\* and more to come, and GetStats gives total 4, min 100, max 5000 and the
\* average 2775.
C13_ScenarioRanksPageStats ==
    (DOMAIN users = DOMAIN Scenario) =>
        /\ resp.op = "GetUserRank" =>
               /\ resp.err = "nil"
               /\ resp.rank = ((<<65>> :> 1) @@ (<<66>> :> 2) @@ (<<67>> :> 2)
                                   @@ (<<68>> :> 4))[resp.username]
        /\ resp.op = "GetLeaderboard" =>
               /\ resp.response.Entries =
                      << [Rank |-> 1, Username |-> <<65>>, Rating |-> 5000],
                         [Rank |-> 2, Username |-> <<66>>, Rating |-> 3000] >>
               /\ resp.response.TotalUsers = 4
               /\ resp.response.HasMore
               /\ resp.response.err = "nil"
        /\ resp.op = "GetStats" =>
               /\ resp.response.TotalUsers = 4
               /\ resp.response.MinRating = 100
               /\ resp.response.MaxRating = 5000
               /\ resp.response.AverageRating.num
                      = 2775 * resp.response.AverageRating.den
               /\ resp.response.err = "nil"

\* the four users are stored and the first page of two has been read
C13_Witness ==
    /\ users = Scenario
    /\ resp.op = "GetLeaderboard"
    /\ Len(resp.response.Entries) = 2

\* C14: AddUser(id, r) changes the entry of id alone: the count grows by one
\* when id was missing and stays when id was stored, every other username keeps
\* its rating, no other username appears, and GetUser(id) afterwards returns
\* the rating r.
C14_AddUserUpserts ==
    [][resp'.op = "AddUser" =>
          LET id == resp'.username
              r  == resp'.rating
          IN  /\ id \notin DOMAIN users =>
                     Store_GetUserCount(users') = Store_GetUserCount(users) + 1
              /\ id \in DOMAIN users =>
                     Store_GetUserCount(users') = Store_GetUserCount(users)
              /\ DOMAIN users' = DOMAIN users \cup {id}
              /\ \A v \in DOMAIN users \ {id} : users'[v] = users[v]
              /\ Store_GetUser(users', id) = [user |-> User(id, r),
                                              err |-> "nil"]]_vars

\* an AddUser has just set a rating while two other users are stored
C14_Witness ==
    /\ resp.op = "AddUser"
    /\ Cardinality(Stored) = 3
    /\ users[resp.username] = resp.rating
    /\ \E v \in Stored \ {resp.username} : users[v] # resp.rating

\* C15: no operation of the store lowers the user count, and a username once
\* stored is found by GetUser in every later state.
C15_StoreNeverForgets ==
    [][/\ Store_GetUserCount(users') >= Store_GetUserCount(users)
       /\ \A u \in DOMAIN users : Store_GetUser(users', u).err = "nil"]_vars

\* C16: for a username that is not stored, GetUser, the store's GetUserRank,
\* the service's GetUserRank and UpdateScore return the error "user not found",
\* the handlers answer it with 404, and the store is left as it was: UpdateScore
\* adds no user.
C16_AbsentIsNotFound ==
    /\ \A u \in Usernames \ Stored :
           /\ Store_GetUser(users, u).err = "user not found"
           /\ \A order \in IterOrders(users) :
                  /\ Store_GetUserRank(users, order, u).err = "user not found"
                  /\ Service_GetUserRank(users, order, u).err = "user not found"
                  /\ Handler_GetUserRank(users, order, u).status = 404
           /\ \A r \in Ratings :
                  /\ Service_UpdateScore(users, u, r)
                         = [users |-> users, err |-> "user not found"]
                  /\ Handler_UpdateScore(users, u, r).users = users
                  /\ BindUpdateScoreRequest(r) =>
                         Handler_UpdateScore(users, u, r).status = 404
    /\ (resp.op \in { "GetUser", "GetUserRank", "UpdateScore" }
            /\ resp.username \notin Stored) =>
           resp.err = "user not found"

\* UpdateScore has just failed for a username that is missing while another
\* one is stored
C16_Witness ==
    /\ resp.op = "UpdateScore"
    /\ resp.err = "user not found"
    /\ resp.username \notin Stored
    /\ Stored # {}

\* the goroutines between the return of Lock or RLock and the deferred unlock
Inside == { p \in Procs : procs[p].pc \in { "body", "unlock" } }

\* C17: while a goroutine is inside the critical section of AddUser or Clear,
\* no other goroutine is inside any critical section of the store; goroutines
\* inside the critical sections of the reading methods may be there together.
C17_WriterExcludesAll ==
    \A p \in Inside :
        IsWrite(procs[p].call) => Inside = { p }

\* two goroutines are inside reading critical sections at the same time
C17_Witness ==
    \E p, q \in Inside :
        /\ p # q
        /\ ~IsWrite(procs[p].call)
        /\ ~IsWrite(procs[q].call)
        /\ mu.readers = 2

\* C18: AddUser calls running at the same time take effect one after the
\* other, in the order in which they got the write lock: whenever no writer
\* holds the lock the map is what the writes made in that order leave, so the
\* rating of a username is the one of the AddUser that got the lock last, and
\* a GetUser that has read inside its critical section has read that rating.
C18_LastLockerWins ==
    /\ ~mu.writer => users = lastWrite
    /\ \A p \in Procs :
           (/\ procs[p].pc = "unlock"
            /\ procs[p].call.op = "GetUser"
            /\ resp.op = "GetUser"
            /\ resp.call = procs[p].call) =>
               resp.result = Store_GetUser(lastWrite, procs[p].call.username)

\* one AddUser of "A" has written its rating and not yet released the lock
\* while another AddUser of "A" with the other rating waits for the lock
C18_Witness ==
    \E p, q \in Procs :
        /\ procs[p].pc = "unlock"
        /\ procs[q].pc = "lock"
        /\ procs[p].call.op = "AddUser"
        /\ procs[q].call.op = "AddUser"
        /\ procs[p].call.username = procs[q].call.username
        /\ procs[p].call.rating # procs[q].call.rating
        /\ users[procs[p].call.username] = procs[p].call.rating
        /\ lastWrite = users

\* C19: once main has received SIGINT or SIGTERM, StartRandomUpdates updates
\* no score any more.
C19_UpdaterStopsOnSignal ==
    [][(main # "serving" /\ resp'.op = "StartRandomUpdates") =>
           resp'.username = <<>>]_vars

\* C20: whatever the seed and update-score requests and the random updates
\* do, every stored rating lies in 100 .. 5000: the update-score handler turns
\* a rating outside it away and changes nothing, and the random ratings are
\* inside it.
C20_ServedRatingsInRange ==
    /\ \A u \in Stored : ValidRating(users[u])
    /\ (resp.op = "Handler.UpdateScore" /\ ~ValidRating(resp.rating)) =>
           resp.status = 400
    /\ \A u \in PathUsernames, r \in BodyRatings :
           ~ValidRating(r) => Handler_UpdateScore(users, u, r).users = users

\* a stored user's update to 5001 has been turned away while the lowest and
\* the highest random rating are stored
C20_Witness ==
    /\ resp.op = "Handler.UpdateScore"
    /\ resp.rating = 5001
    /\ resp.username \in Stored
    /\ resp.status = 400
    /\ \E u, v \in Stored : users[u] = MinRating /\ users[v] = MaxRating

\* the rank the rating has in the map s: one more than the users of s rated
\* strictly higher
RankIn(s, rating) == 1 + Cardinality({ v \in DOMAIN s : s[v] > rating })

\* the map s holds the username with this rating and this rank
HoldsRanked(s, username, rating, rank) ==
    /\ username \in DOMAIN s
    /\ s[username] = rating
    /\ rank = RankIn(s, rating)

\* C21: the rating and the rank the service's GetUserRank returns belong to
\* one state of the store that existed between the call and its return, also
\* when other goroutines add users meanwhile.
C21_RankOfOneState ==
    (resp.op = "Service.GetUserRank" /\ resp.err = "nil") =>
        \E s \in resp.states :
            HoldsRanked(s, resp.call.username, resp.response.Rating,
                        resp.response.Rank)

\* C22: a GetLeaderboard response describes one state of the store that existed
\* during the call: AddUser calls that run after GetAllUsers has returned
\* change neither the usernames nor the ratings of the slice, so entries, ranks,
\* TotalUsers and HasMore are those of that one state.
C22_LeaderboardOfOneState ==
    resp.op = "Service.GetLeaderboard" =>
        \E s \in resp.states :
            /\ \E order \in IterOrders(s) :
                   resp.response = Service_GetLeaderboard(s, order,
                                                          resp.call.page,
                                                          resp.call.limit)
            /\ resp.response.TotalUsers = Cardinality(DOMAIN s)
            /\ \A k \in 1 .. Len(resp.response.Entries) :
                   HoldsRanked(s, resp.response.Entries[k].Username,
                               resp.response.Entries[k].Rating,
                               resp.response.Entries[k].Rank)

\* a page has been returned whose first user has another rating by now
C22_Witness ==
    /\ resp.op = "Service.GetLeaderboard"
    /\ Len(resp.response.Entries) > 0
    /\ users[resp.response.Entries[1].Username]
           # resp.response.Entries[1].Rating
    /\ Cardinality(resp.states) > 1

\* C23: when AddUser calls fall into a SearchUser call, the rating and the
\* rank of every result still belong to one state of the store, and the ranks
\* do not fall along the list.
C23_SearchRanksOfOneState ==
    resp.op = "Service.SearchUser" =>
        /\ \A k \in 1 .. Len(resp.results) :
               \E s \in resp.states :
                   HoldsRanked(s, resp.results[k].Username,
                               resp.results[k].Rating, resp.results[k].Rank)
        /\ \A k \in 1 .. Len(resp.results) - 1 :
               resp.results[k].Rank <= resp.results[k + 1].Rank

\* C24: SearchUser returns no result with a rank below 1 together with a nil
\* error: a rank lookup that fails is reported to the caller.
C24_SearchReportsFailedRank ==
    (resp.op = "Service.SearchUser" /\ resp.err = "nil") =>
        \A k \in 1 .. Len(resp.results) : resp.results[k].Rank >= 1

\* the rank of every place of the sorted slice s by the rule of one pass:
\* the place itself where it is the first or the rating differs from the one
\* before, the rank of the place before otherwise
RuleRanks(s) ==
    LET rank[i \in 1 .. Len(s)] ==
            IF i = 1 \/ s[i].Rating # s[i - 1].Rating THEN i ELSE rank[i - 1]
    IN  rank

\* C25: in a GetLeaderboard response every entry has the rank the one-pass
\* rule gives its place in the sorted slice; the ranks do not fall along the
\* page nor from the page to the next one, and the first entry of page 1 has
\* rank 1.
C25_RanksFollowOnePass ==
    resp.op = "GetLeaderboard" =>
        LET order    == CHOOSE o \in IterOrders(users) : TRUE
            allUsers == Store_GetAllUsers(users, order)
            rule     == RuleRanks(allUsers)
            entries  == resp.response.Entries
            next     == Service_GetLeaderboard(users, order, resp.page + 1,
                                               resp.limit).Entries
        IN  /\ \A k \in 1 .. Len(entries) :
                   \E i \in 1 .. Len(allUsers) :
                       /\ allUsers[i].Username = entries[k].Username
                       /\ entries[k].Rank = rule[i]
            /\ \A k \in 1 .. Len(entries) - 1 :
                   entries[k].Rank <= entries[k + 1].Rank
            /\ (Len(entries) > 0 /\ Len(next) > 0) =>
                   entries[Len(entries)].Rank <= next[1].Rank
            /\ (resp.page = 1 /\ Len(entries) > 0) => entries[1].Rank = 1

\* the first page of two shows two users level at rank 1 and a third user is
\* still to come
C25_Witness ==
    /\ resp.op = "GetLeaderboard"
    /\ resp.page = 1
    /\ Len(resp.response.Entries) = 2
    /\ resp.response.Entries[2].Rank = 1
    /\ resp.response.HasMore

\* C26: for every page from 1 on, however large, and every limit of 1 .. 100,
\* GetLeaderboard returns no empty list together with HasMore = true and no
\* more than limit entries.
C26_NoEmptyPageWithMore ==
    (resp.op = "GetLeaderboard" /\ resp.page >= 1
         /\ resp.limit >= 1 /\ resp.limit <= LimitCap) =>
        /\ ~(resp.response.Entries = <<>> /\ resp.response.HasMore)
        /\ Len(resp.response.Entries) <= resp.limit

\* C27: a tick of StartRandomUpdates writes at most one rating, of 100 .. 5000,
\* to a username that was stored; it adds and removes no username and changes
\* no other rating, and on an empty store it changes nothing.
C27_TickUpdatesOneStoredUser ==
    [][resp'.op = "StartRandomUpdates" =>
          LET changed == { u \in DOMAIN users : users'[u] # users[u] }
          IN  /\ DOMAIN users' = DOMAIN users
              /\ Store_GetUserCount(users') = Store_GetUserCount(users)
              /\ users = NewMemoryStore => users' = users
              /\ Cardinality(changed) <= 1
              /\ resp'.username = <<>> => users' = users
              /\ resp'.username # <<>> =>
                     /\ resp'.username \in DOMAIN users
                     /\ changed \subseteq { resp'.username }
                     /\ users'[resp'.username] = resp'.rating
                     /\ ValidRating(resp'.rating)]_vars

\* a tick has given one of two stored users the highest rating and the other
\* one has another rating
C27_Witness ==
    /\ resp.op = "StartRandomUpdates"
    /\ resp.username \in Stored
    /\ Cardinality(Stored) = 2
    /\ users[resp.username] = MaxRating
    /\ \E v \in Stored : users[v] # MaxRating

\* "user_1" .. "user_n" written out (n below 10)
SeededNames(n) == { << 117, 115, 101, 114, 95, 48 + i >> : i \in 1 .. n }

\* C30: SeedData(N) with N >= 1 leaves user_1 .. user_N stored, each with a
\* rating of 100 .. 5000, and every other user as it was; the count is that of
\* the usernames before together with user_1 .. user_N, so that seeding N
\* again leaves the count as it is.
C30_SeedDataUpsertsNames ==
    [][(resp'.op = "Handler.SeedData" /\ resp'.status = 200) =>
          LET seeded == SeededNames(resp'.count)
          IN  /\ resp'.count >= 1
              /\ DOMAIN users' = DOMAIN users \cup seeded
              /\ Store_GetUserCount(users')
                     = Cardinality(DOMAIN users \cup seeded)
              /\ \A u \in seeded : ValidRating(users'[u])
              /\ \A u \in DOMAIN users \ seeded : users'[u] = users[u]
              /\ \A ratings \in [1 .. resp'.count -> RandomRatings] :
                     Store_GetUserCount(
                         Service_SeedData(users', resp'.count, ratings).users)
                         = Store_GetUserCount(users')]_vars

\* one user has been seeded while user_2 was stored already
C30_Witness ==
    /\ resp.op = "Handler.SeedData"
    /\ resp.status = 200
    /\ resp.count = 1
    /\ Stored = SeededNames(2)

\* C28: once its context is cancelled, StartRandomUpdates returns in the end,
\* the ticker firing or not.
C28_CancelledUpdaterReturns ==
    (ctx = "cancelled" /\ procs[Updater] # Idle)
        ~> (procs[Updater].pc = "returned")

\* StartRandomUpdates has returned after its context was cancelled, with a
\* user in the store for the ticks to update
C28_Witness ==
    /\ ctx = "cancelled"
    /\ procs[Updater].pc = "returned"
    /\ resp.op = "StartRandomUpdates"
    /\ Stored # {}

\* C29: once the context is cancelled no tick begins: every UpdateScore of
\* StartRandomUpdates belongs to a tick that began before the cancellation.
C29_NoTickAfterCancel ==
    [][(procs[Updater].pc = "UpdateScore" /\ procs'[Updater].pc = "select") =>
           procs[Updater].began = "live"]_vars

\* the goroutines that hold the lock: between Lock()/RLock() returning and the
\* deferred unlock
Holders == { p \in Procs : procs[p].pc \in { "body", "unlock" } }

\* the mutex is held by exactly the goroutines inside a method, each once
HeldOncePerCall ==
    /\ mu.writer = (\E p \in Holders : IsWrite(procs[p].call))
    /\ mu.readers = Cardinality({ p \in Holders : ~IsWrite(procs[p].call) })
    /\ mu.pending = (\E p \in Procs : /\ procs[p].pc = "wait"
                                      /\ IsWrite(procs[p].call))
    /\ \A p \in Procs : procs[p].pc \in { "lock", "wait" } => p \notin Holders
    /\ (\A p \in Procs : procs[p] = Idle) => mu = NewRWMutex

\* C31: no store operation blocks indefinitely.  Every store method takes the
\* lock once (the mutex counts exactly the goroutines inside a method, none
\* of them twice, and is free when all have returned), and with a fair lock
\* every call any goroutine has begun, read or write, returns: each goroutine
\* is outside the store again and again, however the others call.
C31_EveryCallReturns ==
    /\ []HeldOncePerCall
    /\ \A p \in Procs : []<>(procs[p] = Idle)

\* a writer that has announced itself waits in Lock() for a reader that has
\* run its body, the last body run, and not yet released
C31_Witness ==
    \E p, q \in Procs :
        /\ procs[p].pc = "wait"
        /\ IsWrite(procs[p].call)
        /\ mu.pending
        /\ mu.readers = 1
        /\ procs[q].pc = "unlock"
        /\ ~IsWrite(procs[q].call)
        /\ resp.call = procs[q].call

====
